---- MODULE Spec2Model ----
(***************************************************************************)
(* QuickVC-VoiceConversion audio conversion scripts:                       *)
(*   m4a_to_wav.py             convert_any_audio_to_wav,                   *)
(*                             convert_directory_librosa                   *)
(*   m4a_converter_fallback.py convert_with_simple_fallback,               *)
(*                             convert_m4a_with_audioread                  *)
(*   m4a_ffmpeg_converter.py   check_ffmpeg, convert_m4a_to_wav            *)
(* One entry point runs per behaviour (func).  The decoding libraries and  *)
(* the ffmpeg executable are the environment: their behaviour is fixed in  *)
(* the initial state (beh) and is a function of the file they read.        *)
(***************************************************************************)
EXTENDS Integers, Sequences, FiniteSets, TLC

VARIABLES
    func,         \* entry point: "any" | "librosa" | "simple" | "ffmpeg" | "dir" | "audioread"
    fs,           \* file system: path -> content
    fs0,          \* the file system before the entry point ran
    beh,          \* environment: backend -> behaviour on a decodable file
    input_path,   \* argument input_path of the running conversion
    output_arg,   \* argument output_path as passed (NonePath for None)
    sample_rate,  \* argument sample_rate
    output_path,  \* local output_path once resolved
    pc,           \* position in the running function
    bi,           \* index of the loop over backends (convert_with_simple_fallback)
    log,          \* decode attempts of the running request, in order
    printed,      \* messages printed by the running request, in order
    writes,       \* writes to output_path made by the running request, in order
    ret,          \* return value of the running request
    in0,          \* content of the input file when the request started
    run,          \* number of the request (the same request is repeated)
    prev,         \* outcome of the previous run of the request
    output_dir,   \* directory mode: argument output_dir ("" for None)
    audio_files,  \* directory mode: files still to convert
    results,      \* directory mode: outcome of each call, in order
    ar            \* convert_m4a_with_audioread on sample data: input and output

vars == <<func, fs, fs0, beh, input_path, output_arg, sample_rate, output_path, pc, bi,
          log, printed, writes, ret, in0, run, prev, output_dir,
          audio_files, results, ar>>

----------------------------------------------------------------------------
(* Bounds of the model *)

MaxFiles == 2      \* files in the directory given to convert_directory_librosa
MaxRuns == 2       \* times the same request is issued in a row
MaxChannels == 3   \* channels of the stream read by convert_m4a_with_audioread
MaxFrames == 2     \* frames of that stream

(* Program constants *)

DefaultSampleRate == 16000
Int16Scale == 32768

----------------------------------------------------------------------------
(* Paths: a directory and a file name, the name a sequence of characters *)

NonePath == [dir |-> "", name |-> <<>>]

WavSuffix == <<".", "w", "a", "v">>
M4aSuffix == <<".", "m", "4", "a">>

Names ==
    { <<"a", ".", "m", "4", "a">>,
      <<"a", ".", "M", "4", "A">>,
      <<"a", ".", "m", "p", "3">>,
      <<"a", ".", "w", "a", "v">>,
      <<"b", ".", "m", "4", "a">>,
      <<"a", ".", "b", ".", "m", "p", "3">>,
      <<"a">> }

OutName == <<"o", ".", "w", "a", "v">>

\* str.rfind('.') on a name, 1-based; 0 when there is no dot
rfind_dot(name) ==
    LET dots == {i \in 1..Len(name) : name[i] = "."}
    IN IF dots = {} THEN 0 ELSE CHOOSE i \in dots : \A j \in dots : j <= i

\* Path.suffix
suffix(name) ==
    LET p == rfind_dot(name)
    IN IF p > 1 /\ p < Len(name) THEN SubSeq(name, p, Len(name)) ELSE <<>>

\* Path.stem
stem(name) == SubSeq(name, 1, Len(name) - Len(suffix(name)))

\* Path(p).with_suffix(s)
with_suffix(p, s) == [dir |-> p.dir, name |-> stem(p.name) \o s]

lower_char(c) ==
    CASE c = "M" -> "m"
      [] c = "A" -> "a"
      [] OTHER -> c

\* str.lower
lower(s) == [i \in 1..Len(s) |-> lower_char(s[i])]

----------------------------------------------------------------------------
(* File contents.  kind: "none" (no file), "audio" (a decodable original),  *)
(* "corrupt" (an original no backend decodes), "wav" (written whole by a    *)
(* backend), "partial" (left behind by a write that failed).                *)

NoFile == [kind |-> "none", src |-> <<>>, by |-> "", sr |-> 0, gen |-> 0]

Orig(name, good) ==
    [kind |-> IF good THEN "audio" ELSE "corrupt", src |-> name, by |-> "", sr |-> 0,
     gen |-> 0]

Stale == [kind |-> "wav", src |-> <<"o", "l", "d">>, by |-> "old", sr |-> 0, gen |-> 1]

\* what backend b writes for input content c at rate sr: a function of b, c, sr.
\* gen counts the encodings between the original and this file: decoding a
\* written file and encoding it again is not taken to reproduce it
Wav(b, c, sr) == [kind |-> "wav", src |-> c.src, by |-> b, sr |-> sr, gen |-> c.gen + 1]

Partial(b) == [kind |-> "partial", src |-> <<>>, by |-> b, sr |-> 0, gen |-> 0]

Decodable(c) == c.kind \in {"audio", "wav"}

Dirs == {"in", "out"}

AllNames == Names \cup {stem(n) \o WavSuffix : n \in Names} \cup {OutName}

AllPaths == {[dir |-> d, name |-> n] : d \in Dirs, n \in AllNames}

----------------------------------------------------------------------------
(* The environment: decoding libraries and the ffmpeg executable *)

LibBackends == {"librosa", "pydub", "audioread"}
Backends == LibBackends \cup {"ffmpeg"}

\* a library on a decodable file: converts, raises before writing, or raises
\* after it opened (truncated) the output
LibBeh == {"ok", "raise", "partial"}

\* the ffmpeg executable: converts, exits non-zero without output, exits
\* non-zero leaving output, runs but always exits non-zero, is not on the
\* search path, or is found but cannot be executed
FfmpegBeh == {"ok", "nonzero", "partial", "broken", "notfound", "noperm"}

\* outcome of load + write by a library backend b on input content c
lib_outcome(b, c) ==
    IF ~Decodable(c) THEN [ok |-> FALSE, wrote |-> "none"]
    ELSE CASE beh[b] = "ok" -> [ok |-> TRUE, wrote |-> "full"]
           [] beh[b] = "partial" -> [ok |-> FALSE, wrote |-> "partial"]
           [] OTHER -> [ok |-> FALSE, wrote |-> "none"]

\* exception raised by subprocess.run when the child cannot be started
launch_exc ==
    CASE beh["ffmpeg"] = "notfound" -> "FileNotFoundError"
      [] beh["ffmpeg"] = "noperm" -> "PermissionError"
      [] OTHER -> "none"

\* subprocess.run(['ffmpeg', '-version'], ...)
ffmpeg_version ==
    [exc |-> launch_exc,
     returncode |-> IF beh["ffmpeg"] = "broken" THEN 1 ELSE 0]

\* subprocess.run(["ffmpeg", "-i", inp, "-ar", sr, "-ac", "1", ("-y",) outp]):
\* ffmpeg refuses an output that is its input, and an existing output unless -y
ffmpeg_run(inp, outp, overwrite) ==
    LET canopen == inp # outp /\ (overwrite \/ fs[outp].kind = "none")
        good == Decodable(fs[inp]) /\ canopen
    IN [exc |-> launch_exc,
        returncode |-> IF launch_exc = "none" /\ good /\ beh["ffmpeg"] = "ok"
                       THEN 0 ELSE 1,
        wrote |-> IF launch_exc # "none" \/ ~good THEN "none"
                  ELSE CASE beh["ffmpeg"] = "ok" -> "full"
                         [] beh["ffmpeg"] = "partial" -> "partial"
                         [] OTHER -> "none"]

\* the file system after backend b wrote (or not) to outp
fs_after(b, wrote, outp) ==
    CASE wrote = "full" ->
           [fs EXCEPT ![outp] = Wav(b, fs[input_path], sample_rate)]
      [] wrote = "partial" -> [fs EXCEPT ![outp] = Partial(b)]
      [] OTHER -> fs

writes_after(b, wrote) ==
    IF wrote = "none" THEN writes
    ELSE Append(writes, [by |-> b, complete |-> wrote = "full"])

Msg(m, p) == [msg |-> m, who |-> "", path |-> p]
MsgOf(m, who, p) == [msg |-> m, who |-> who, path |-> p]

RetPending == [kind |-> "pending", path |-> NonePath]
RetNone == [kind |-> "None", path |-> NonePath]
RetPath(p) == [kind |-> "path", path |-> p]
RetBool(b) == [kind |-> IF b THEN "True" ELSE "False", path |-> NonePath]
RetRaised == [kind |-> "raised", path |-> NonePath]

Attempt(b, label, fn, sr, ok) ==
    [backend |-> b, label |-> label,
     call |-> [fn |-> fn, path |-> input_path, sr |-> sr], ok |-> ok]

----------------------------------------------------------------------------
(* Initial states: one entry point, its arguments, the files, the environment *)

SampleRates == {DefaultSampleRate, 44100}

SampleVals == {-32768, 32767}

InPath(n) == [dir |-> "in", name |-> n]
OutFile == [dir |-> "out", name |-> OutName]

NoPrev == [valid |-> FALSE, ret |-> RetPending, out |-> NoFile, in0 |-> NoFile]

NoAr == [channels |-> 0, sr_native |-> 0, buf |-> <<>>,
         audio |-> <<>>, resampled |-> FALSE, written |-> FALSE]

\* the backends an entry point can reach vary; the others are left "ok"
BehFor(f) ==
    {b \in [Backends -> LibBeh \cup FfmpegBeh] :
        /\ b["ffmpeg"] \in (IF f \in {"any", "dir", "ffmpeg"} THEN FfmpegBeh ELSE {"ok"})
        /\ b["librosa"] \in (IF f \in {"any", "dir", "simple", "librosa"}
                              THEN LibBeh ELSE {"ok"})
        /\ b["pydub"] \in (IF f \in {"any", "dir"} THEN LibBeh ELSE {"ok"})
        /\ b["audioread"] \in (IF f = "simple" THEN LibBeh ELSE {"ok"})}

InitRequest ==
    /\ fs0 = fs
    /\ output_path = NonePath
    /\ bi = 0
    /\ log = <<>>
    /\ printed = <<>>
    /\ writes = <<>>
    /\ ret = RetPending
    /\ run = 1
    /\ prev = NoPrev
    /\ audio_files = <<>>
    /\ results = <<>>

\* main() of each script on a single existing file
InitSingle ==
    /\ func \in {"any", "librosa", "simple", "ffmpeg"}
    /\ beh \in BehFor(func)
    /\ sample_rate \in SampleRates
    /\ \E n \in Names, good \in BOOLEAN, pre \in BOOLEAN :
          /\ input_path = InPath(n)
          /\ fs = [p \in AllPaths |->
                     IF p = InPath(n) THEN Orig(n, good)
                     ELSE IF pre /\ p \in {InPath(stem(n) \o WavSuffix), OutFile}
                          THEN Stale ELSE NoFile]
          /\ in0 = Orig(n, good)
    /\ output_arg \in {NonePath, OutFile}
    /\ output_dir = ""
    /\ pc = "start"
    /\ ar = NoAr
    /\ InitRequest

\* main() of m4a_to_wav.py on a directory
InitDir ==
    /\ func = "dir"
    /\ beh \in BehFor("dir")
    /\ sample_rate = DefaultSampleRate
    /\ \E S \in SUBSET Names, bad \in SUBSET Names :
          /\ Cardinality(S) <= MaxFiles
          /\ bad \subseteq S
          /\ fs = [p \in AllPaths |->
                     IF p.dir = "in" /\ p.name \in S
                     THEN Orig(p.name, p.name \notin bad) ELSE NoFile]
    /\ input_path = NonePath
    /\ in0 = NoFile
    /\ output_arg = NonePath
    /\ output_dir \in {"", "out"}
    /\ pc = "dir_start"
    /\ ar = NoAr
    /\ InitRequest

\* convert_m4a_with_audioread on a stream of interleaved 16-bit samples
InitAudioread ==
    /\ func = "audioread"
    /\ beh \in BehFor("audioread")
    /\ sample_rate = DefaultSampleRate
    /\ \E c \in 1..MaxChannels, n \in 0..MaxFrames, r \in SampleRates :
          \E b \in [1..(c * n) -> SampleVals] :
             ar = [channels |-> c, sr_native |-> r, buf |-> b,
                   audio |-> <<>>, resampled |-> FALSE, written |-> FALSE]
    /\ fs = [p \in AllPaths |-> NoFile]
    /\ input_path = InPath(<<"a", ".", "m", "4", "a">>)
    /\ in0 = NoFile
    /\ output_arg = NonePath
    /\ output_dir = ""
    /\ pc = "start"
    /\ InitRequest

Init == InitSingle \/ InitDir \/ InitAudioread

----------------------------------------------------------------------------
(* m4a_to_wav.py: convert_any_audio_to_wav *)

\* (variant of resolve_output: ".wav" appended to the whole input name)
resolve_output_append(inp, outarg) ==
    IF outarg = NonePath THEN [dir |-> inp.dir, name |-> inp.name \o WavSuffix]
    ELSE outarg

\* output_path defaults to the input path with suffix .wav; the same lines
\* open convert_with_simple_fallback and convert_m4a_to_wav
resolve_output(inp, outarg) ==
    IF outarg = NonePath THEN with_suffix(inp, WavSuffix) ELSE outarg

\* (variant of file_ext: the suffix compared as written, without lower())
file_ext_as_written(inp) == suffix(inp.name)

\* file_ext = Path(input_path).suffix.lower()
file_ext(inp) == lower(suffix(inp.name))

\* (variant of pydub_applies: compared with the extension without its dot)
pydub_applies_no_dot(ext) == ext = <<"m", "4", "a">>

\* if file_ext == '.m4a'
pydub_applies(ext) == ext = M4aSuffix

\* (variant of returncode_ok: the test inverted)
returncode_nonzero(rc) == rc # 0

\* if result.returncode == 0
returncode_ok(rc) == rc = 0

\* "-y" in the ffmpeg command line
ffmpeg_overwrite == TRUE

\* m4a_to_wav.py: convert_m4a_to_wav_librosa, the whole function: load,
\* resolve the output path, write, all inside one try
ConvertLibrosa ==
    /\ func = "librosa" /\ pc = "start"
    /\ LET o == lib_outcome("librosa", fs[input_path])
           loaded == o.ok \/ o.wrote # "none"
           outp == IF loaded THEN resolve_output(input_path, output_arg) ELSE NonePath
       IN /\ output_path' = outp
          /\ log' = Append(log, Attempt("librosa", "librosa", "librosa.load",
                                        sample_rate, o.ok))
          /\ fs' = IF loaded THEN fs_after("librosa", o.wrote, outp) ELSE fs
          /\ writes' = writes_after("librosa", o.wrote)
          /\ IF o.ok
             THEN /\ printed' = Append(printed, Msg("Converted", outp))
                  /\ ret' = RetPath(outp)
             ELSE /\ printed' = Append(printed, Msg("Error converting", input_path))
                  /\ ret' = RetNone
          /\ pc' = "done"
    /\ UNCHANGED <<func, fs0, beh, input_path, output_arg, sample_rate, bi, in0, run,
                   prev, output_dir, audio_files, results, ar>>

InAny == func \in {"any", "dir"}

AnyResolve ==
    /\ InAny /\ pc = "start"
    /\ output_path' = resolve_output(input_path, output_arg)
    /\ pc' = "librosa"
    /\ UNCHANGED <<func, fs, fs0, beh, input_path, output_arg, sample_rate, bi, log,
                   printed, writes, ret, in0, run, prev, output_dir, audio_files,
                   results, ar>>

\* Method 1: librosa.load, sf.write
TryLibrosa ==
    /\ InAny /\ pc = "librosa"
    /\ LET o == lib_outcome("librosa", fs[input_path])
       IN /\ log' = Append(log, Attempt("librosa", "librosa", "librosa.load",
                                        sample_rate, o.ok))
          /\ fs' = fs_after("librosa", o.wrote, output_path)
          /\ writes' = writes_after("librosa", o.wrote)
          /\ IF o.ok
             THEN /\ printed' = printed \o <<Msg("Trying librosa", input_path),
                                             Msg("Converted", output_path)>>
                  /\ ret' = RetPath(output_path)
                  /\ pc' = "done"
             ELSE /\ printed' = printed \o <<Msg("Trying librosa", input_path),
                                             Msg("Librosa failed", input_path)>>
                  /\ ret' = ret
                  /\ pc' = IF pydub_applies(file_ext(input_path))
                           THEN "pydub" ELSE "ffmpeg"
    /\ UNCHANGED <<func, fs0, beh, input_path, output_arg, sample_rate, output_path, bi,
                   in0, run, prev, output_dir, audio_files, results, ar>>

\* Method 2: AudioSegment.from_file, set_channels, set_frame_rate, export
TryPydub ==
    /\ InAny /\ pc = "pydub"
    /\ LET o == lib_outcome("pydub", fs[input_path])
       IN /\ log' = Append(log, Attempt("pydub", "pydub", "AudioSegment.from_file",
                                        0, o.ok))
          /\ fs' = fs_after("pydub", o.wrote, output_path)
          /\ writes' = writes_after("pydub", o.wrote)
          /\ IF o.ok
             THEN /\ printed' = printed \o <<Msg("Trying pydub", input_path),
                                             Msg("Converted", output_path)>>
                  /\ ret' = RetPath(output_path)
                  /\ pc' = "done"
             ELSE /\ printed' = printed \o <<Msg("Trying pydub", input_path),
                                             Msg("Pydub failed", input_path)>>
                  /\ ret' = ret
                  /\ pc' = "ffmpeg"
    /\ UNCHANGED <<func, fs0, beh, input_path, output_arg, sample_rate, output_path, bi,
                   in0, run, prev, output_dir, audio_files, results, ar>>

\* Method 3: subprocess.run of ffmpeg, then the end of the function
TryFfmpeg ==
    /\ InAny /\ pc = "ffmpeg"
    /\ LET r == ffmpeg_run(input_path, output_path, ffmpeg_overwrite)
           raised == r.exc # "none"
           ok == ~raised /\ returncode_ok(r.returncode)
       IN /\ log' = Append(log, Attempt("ffmpeg", "ffmpeg", "ffmpeg", sample_rate, ok))
          /\ fs' = fs_after("ffmpeg", r.wrote, output_path)
          /\ writes' = writes_after("ffmpeg", r.wrote)
          /\ IF ok
             THEN /\ printed' = printed \o <<Msg("Trying ffmpeg", input_path),
                                             Msg("Converted", output_path)>>
                  /\ ret' = RetPath(output_path)
             ELSE /\ printed' = printed \o
                        <<Msg("Trying ffmpeg", input_path),
                          Msg(IF raised THEN "FFmpeg not available" ELSE "FFmpeg failed",
                              input_path),
                          Msg("All conversion methods failed", input_path)>>
                  /\ ret' = RetNone
          /\ pc' = "done"
    /\ UNCHANGED <<func, fs0, beh, input_path, output_arg, sample_rate, output_path, bi,
                   in0, run, prev, output_dir, audio_files, results, ar>>

----------------------------------------------------------------------------
(* m4a_converter_fallback.py: convert_with_simple_fallback *)

\* backends = ['soundfile', 'audioread']
fallback_backends == <<"soundfile", "audioread">>

SimpleResolve ==
    /\ func = "simple" /\ pc = "start"
    /\ output_path' = resolve_output(input_path, output_arg)
    /\ bi' = 1
    /\ pc' = "loop"
    /\ UNCHANGED <<func, fs, fs0, beh, input_path, output_arg, sample_rate, log, printed,
                   writes, ret, in0, run, prev, output_dir, audio_files, results, ar>>

\* one iteration of "for backend in backends": the body never uses backend
\* except in its messages, and calls librosa.load(input_path, sr, mono=True)
SimpleLoop ==
    /\ func = "simple" /\ pc = "loop"
    /\ LET backend == fallback_backends[bi]
           o == lib_outcome("librosa", fs[input_path])
       IN /\ log' = Append(log, Attempt("librosa", backend, "librosa.load",
                                        sample_rate, o.ok))
          /\ fs' = fs_after("librosa", o.wrote, output_path)
          /\ writes' = writes_after("librosa", o.wrote)
          /\ IF o.ok
             THEN /\ printed' = printed \o <<MsgOf("Trying librosa with backend", backend, input_path),
                                             Msg("Converted", output_path)>>
                  /\ ret' = RetPath(output_path)
                  /\ pc' = "done"
                  /\ bi' = bi
             ELSE /\ printed' = printed \o <<MsgOf("Trying librosa with backend", backend, input_path),
                                             MsgOf("Backend failed", backend, input_path)>>
                  /\ ret' = ret
                  /\ bi' = bi + 1
                  /\ pc' = IF bi < Len(fallback_backends) THEN "loop" ELSE "audioread"
    /\ UNCHANGED <<func, fs0, beh, input_path, output_arg, sample_rate, output_path,
                   in0, run, prev, output_dir, audio_files, results, ar>>

\* Method 2: convert_m4a_with_audioread(input_path, output_path, sample_rate),
\* then the end of the function
SimpleAudioread ==
    /\ func = "simple" /\ pc = "audioread"
    /\ LET o == lib_outcome("audioread", fs[input_path])
       IN /\ log' = Append(log, Attempt("audioread", "audioread",
                                        "audioread.audio_open", 0, o.ok))
          /\ fs' = fs_after("audioread", o.wrote, output_path)
          /\ writes' = writes_after("audioread", o.wrote)
          /\ IF o.ok
             THEN /\ printed' = printed \o <<Msg("Converting M4A using audioread", input_path),
                                             Msg("Converted", output_path)>>
                  /\ ret' = RetPath(output_path)
             ELSE /\ printed' = printed \o
                        <<Msg("Converting M4A using audioread", input_path),
                          Msg("Audioread conversion failed", input_path),
                          Msg("All methods failed", input_path)>>
                  /\ ret' = RetNone
          /\ pc' = "done"
    /\ UNCHANGED <<func, fs0, beh, input_path, output_arg, sample_rate, output_path, bi,
                   in0, run, prev, output_dir, audio_files, results, ar>>

----------------------------------------------------------------------------
(* m4a_ffmpeg_converter.py: check_ffmpeg, convert_m4a_to_wav *)

\* try: return subprocess.run(...).returncode == 0
\* except FileNotFoundError: return False
check_ffmpeg ==
    LET r == ffmpeg_version
    IN IF r.exc = "FileNotFoundError" THEN "False"
       ELSE IF r.exc # "none" THEN "raise"
       ELSE IF r.returncode = 0 THEN "True" ELSE "False"

\* if not check_ffmpeg(): install_ffmpeg_instructions(); return False
FfmpegCheck ==
    /\ func = "ffmpeg" /\ pc = "start"
    /\ CASE check_ffmpeg = "raise" ->
              /\ ret' = RetRaised
              /\ printed' = printed
              /\ pc' = "done"
         [] check_ffmpeg = "False" ->
              /\ ret' = RetBool(FALSE)
              /\ printed' = Append(printed, Msg("FFmpeg is required", NonePath))
              /\ pc' = "done"
         [] OTHER ->
              /\ ret' = ret
              /\ printed' = printed
              /\ pc' = "convert"
    /\ UNCHANGED <<func, fs, fs0, beh, input_path, output_arg, sample_rate, output_path, bi,
                   log, writes, in0, run, prev, output_dir, audio_files, results, ar>>

\* the rest of convert_m4a_to_wav: resolve the output path, run ffmpeg -y
FfmpegConvert ==
    /\ func = "ffmpeg" /\ pc = "convert"
    /\ LET outp == resolve_output(input_path, output_arg)
           r == ffmpeg_run(input_path, outp, TRUE)
           raised == r.exc # "none"
           ok == ~raised /\ r.returncode = 0
       IN /\ output_path' = outp
          /\ log' = Append(log, Attempt("ffmpeg", "ffmpeg", "ffmpeg", sample_rate, ok))
          /\ fs' = fs_after("ffmpeg", r.wrote, outp)
          /\ writes' = writes_after("ffmpeg", r.wrote)
          /\ printed' = printed \o
                <<Msg("Converting", outp),
                  IF ok THEN Msg("Successfully converted", outp)
                  ELSE IF raised THEN Msg("Error", input_path)
                  ELSE Msg("FFmpeg error", input_path)>>
          /\ ret' = RetBool(ok)
          /\ pc' = "done"
    /\ UNCHANGED <<func, fs0, beh, input_path, output_arg, sample_rate, bi, in0, run, prev,
                   output_dir, audio_files, results, ar>>

----------------------------------------------------------------------------
(* The same request issued again (same arguments, same environment) *)

Again ==
    /\ func \in {"any", "librosa", "simple", "ffmpeg"} /\ pc = "done"
    /\ run < MaxRuns
    /\ prev' = [valid |-> TRUE, ret |-> ret, in0 |-> in0,
                out |-> IF output_path = NonePath THEN NoFile ELSE fs[output_path]]
    /\ run' = run + 1
    /\ in0' = fs[input_path]
    /\ output_path' = NonePath
    /\ bi' = 0
    /\ log' = <<>>
    /\ printed' = <<>>
    /\ writes' = <<>>
    /\ ret' = RetPending
    /\ pc' = "start"
    /\ UNCHANGED <<func, fs, fs0, beh, input_path, output_arg, sample_rate, output_dir,
                   audio_files, results, ar>>

----------------------------------------------------------------------------
(* m4a_to_wav.py: convert_directory_librosa *)

\* supported_formats = ['*.mp3', '*.m4a', '*.flac', '*.ogg', '*.wav', '*.aac']
supported_formats ==
    << <<".", "m", "p", "3">>, <<".", "m", "4", "a">>, <<".", "f", "l", "a", "c">>,
       <<".", "o", "g", "g">>, <<".", "w", "a", "v">>, <<".", "a", "a", "c">> >>

\* fnmatch of a name against '*' followed by ext
EndsWith(name, ext) ==
    /\ Len(name) >= Len(ext)
    /\ SubSeq(name, Len(name) - Len(ext) + 1, Len(name)) = ext

\* input_path.glob(pattern): the files of the directory that match, as a set
glob(dir, ext) ==
    {p \in AllPaths : p.dir = dir /\ fs[p].kind # "none" /\ EndsWith(p.name, ext)}

\* the orders in which a set can be listed
Listings(S) ==
    {f \in [1..Cardinality(S) -> S] : \A x \in S : \E i \in 1..Cardinality(S) : f[i] = x}

\* audio_files after the first k patterns: pattern order, any order within one
RECURSIVE extend_files(_, _)
extend_files(dir, k) ==
    IF k = 0 THEN {<<>>}
    ELSE {a \o b : a \in extend_files(dir, k - 1),
                   b \in Listings(glob(dir, supported_formats[k]))}

\* wav_file = output_path / f"{audio_file.stem}.wav"
wav_file(outdir, audio_file) ==
    [dir |-> outdir, name |-> stem(audio_file.name) \o WavSuffix]

\* up to the for loop: choose the output directory, list the files
DirStart ==
    /\ func = "dir" /\ pc = "dir_start"
    /\ \E files \in extend_files("in", Len(supported_formats)) :
          /\ audio_files' = files
          /\ IF files = <<>>
             THEN /\ printed' = Append(printed, Msg("No supported audio files found", NonePath))
                  /\ pc' = "dir_done"
             ELSE /\ printed' = Append(printed, Msg("Found audio files to convert", NonePath))
                  /\ pc' = "dir_loop"
    /\ UNCHANGED <<func, fs, fs0, beh, input_path, output_arg, sample_rate, output_path, bi,
                   log, writes, ret, in0, run, prev, output_dir, results, ar>>

\* loop body: the call convert_any_audio_to_wav(str(audio_file), str(wav_file), sr)
DirCall ==
    /\ func = "dir" /\ pc = "dir_loop" /\ audio_files # <<>>
    /\ LET audio_file == Head(audio_files)
       IN /\ input_path' = audio_file
          /\ output_arg' = wav_file(IF output_dir = "" THEN "in" ELSE output_dir,
                                    audio_file)
          /\ in0' = fs[audio_file]
    /\ audio_files' = Tail(audio_files)
    /\ output_path' = NonePath
    /\ log' = <<>>
    /\ printed' = <<>>
    /\ writes' = <<>>
    /\ ret' = RetPending
    /\ pc' = "start"
    /\ UNCHANGED <<func, fs, fs0, beh, sample_rate, bi, run, prev, output_dir, results, ar>>

\* the call returns; its value is dropped, its messages are the report
DirReturn ==
    /\ func = "dir" /\ pc = "done"
    /\ results' = Append(results, [input |-> input_path, output |-> output_path,
                                   ok |-> ret.kind = "path",
                                   failed |-> "All conversion methods failed" \in
                                                {printed[i].msg : i \in 1..Len(printed)}])
    /\ pc' = IF audio_files = <<>> THEN "dir_done" ELSE "dir_loop"
    /\ UNCHANGED <<func, fs, fs0, beh, input_path, output_arg, sample_rate, output_path, bi,
                   log, printed, writes, ret, in0, run, prev, output_dir, audio_files, ar>>

----------------------------------------------------------------------------
(* m4a_converter_fallback.py: convert_m4a_with_audioread on sample data.    *)
(* A sample is a rational num/den; int16 / 32768.0 and the mean of two such *)
(* values are exact in float32.                                             *)

\* np.frombuffer(audio_bytes, dtype=np.int16).astype(np.float32) / 32768.0
frombuffer(buf) == [i \in 1..Len(buf) |-> [num |-> buf[i], den |-> Int16Scale]]

\* audio.reshape((-1, 2)).mean(axis=1)
reshape2_mean(a) ==
    [i \in 1..(Len(a) \div 2) |->
        [num |-> a[2 * i - 1].num + a[2 * i].num, den |-> 2 * Int16Scale]]

\* if f.channels == 2: ... else: ...
to_mono(channels, buf) ==
    IF channels = 2 THEN reshape2_mean(frombuffer(buf)) ELSE frombuffer(buf)

\* the whole function on a readable stream with a writable output
AudioreadSamples ==
    /\ func = "audioread" /\ pc = "start"
    /\ output_path' = resolve_output(input_path, output_arg)
    /\ ar' = [ar EXCEPT !.audio = to_mono(ar.channels, ar.buf),
                        !.resampled = (ar.sr_native # sample_rate),
                        !.written = TRUE]
    /\ fs' = [fs EXCEPT ![output_path'] = Wav("audioread", fs[input_path], sample_rate)]
    /\ printed' = printed \o <<Msg("Converting M4A using audioread", input_path),
                               Msg("Converted", output_path')>>
    /\ ret' = RetPath(output_path')
    /\ pc' = "done"
    /\ UNCHANGED <<func, fs0, beh, input_path, output_arg, sample_rate, bi, log, writes, in0,
                   run, prev, output_dir, audio_files, results>>

----------------------------------------------------------------------------

Next ==
    \/ ConvertLibrosa
    \/ AnyResolve
    \/ TryLibrosa
    \/ TryPydub
    \/ TryFfmpeg
    \/ SimpleResolve
    \/ SimpleLoop
    \/ SimpleAudioread
    \/ FfmpegCheck
    \/ FfmpegConvert
    \/ Again
    \/ DirStart
    \/ DirCall
    \/ DirReturn
    \/ AudioreadSamples

Spec == Init /\ [][Next]_vars

----------------------------------------------------------------------------
(* Properties *)

Last(q) == q[Len(q)]

\* the priority order of convert_any_audio_to_wav
AnyOrder == <<"librosa", "pydub", "ffmpeg">>

Rank(b) == CHOOSE k \in 1..Len(AnyOrder) : AnyOrder[k] = b

\* the input name ends in .m4a, in any letter case
IsM4a(p) == EndsWith(lower(p.name), M4aSuffix)

\* a call of convert_any_audio_to_wav is running or has just returned
AnyCall == InAny /\ input_path # NonePath

\* as soon as a backend succeeds the call returns the resolved output path
\* and attempts nothing more
FirstSuccessReturns ==
    \A i \in 1..Len(log) :
        log[i].ok => /\ i = Len(log)
                     /\ pc \notin {"librosa", "pydub", "ffmpeg"}
                     /\ ret = RetPath(output_path)
                     /\ output_path = resolve_output(input_path, output_arg)

\* every backend of rank below that of attempt i was attempted before i and failed
EarlierFailed(i, ranks) ==
    \A k \in ranks :
        k < Rank(log[i].backend) =>
            \E j \in 1..(i - 1) : log[j].backend = AnyOrder[k] /\ ~log[j].ok

\* C1 as stated: in convert_any_audio_to_wav a backend is attempted only after
\* every earlier backend of the order librosa, pydub, ffmpeg has failed, and
\* the first success returns the resolved output path at once.
C1_FixedOrderAllBackends ==
    AnyCall =>
        /\ \A i \in 1..Len(log) : EarlierFailed(i, 1..Len(AnyOrder))
        /\ FirstSuccessReturns

\* the ranks of the backends in the order for this input: pydub only for .m4a
RanksFor(p) == {k \in 1..Len(AnyOrder) : AnyOrder[k] = "pydub" => IsM4a(p)}

\* C1 amended: the order is librosa, pydub, ffmpeg with pydub in it only for
\* inputs whose extension is .m4a in any letter case; a backend is attempted
\* only if it is in the order for the input and every earlier backend of that
\* order has failed, and the first success returns the resolved output path at
\* once.
C1_FixedOrder ==
    AnyCall =>
        /\ \A i \in 1..Len(log) :
              /\ Rank(log[i].backend) \in RanksFor(input_path)
              /\ EarlierFailed(i, RanksFor(input_path))
        /\ FirstSuccessReturns

\* librosa and pydub failed on an .M4A file and ffmpeg converted it
C1_Witness ==
    /\ func = "any" /\ pc = "done"
    /\ input_path.name = <<"a", ".", "M", "4", "A">>
    /\ Len(log) = 3 /\ log[3].ok /\ log[3].backend = "ffmpeg"
    /\ ret = RetPath(output_path)

\* the attempts a call of convert_with_simple_fallback has in its list: the
\* two librosa backends of the loop, then audioread directly
SimpleList ==
    {[backend |-> "librosa", label |-> "soundfile"],
     [backend |-> "librosa", label |-> "audioread"],
     [backend |-> "audioread", label |-> "audioread"]}

Attempted(b, label) ==
    \E i \in 1..Len(log) : log[i].backend = b /\ log[i].label = label

\* the call returned the failure value
ReturnedFailure == pc = "done" /\ ret = RetNone

\* C2 as stated: within one request no decode call is issued twice with the
\* same arguments, and a request that fails has attempted every backend of
\* its orchestrator's list, in convert_with_simple_fallback and in
\* convert_any_audio_to_wav, for every input extension.  The list of
\* convert_any_audio_to_wav is taken as the order for the input (C1).
C2_ExactlyOnce ==
    /\ func \in {"any", "dir", "simple"} =>
          \A i, j \in 1..Len(log) : i < j => log[i].call # log[j].call
    /\ (AnyCall /\ ReturnedFailure) =>
          \A k \in RanksFor(input_path) : Attempted(AnyOrder[k], AnyOrder[k])
    /\ (func = "simple" /\ ReturnedFailure) =>
          \A a \in SimpleList : Attempted(a.backend, a.label)

PrintedMsgs == {printed[i].msg : i \in 1..Len(printed)}

\* the message an attempt prints when it fails
ErrorPrinted(b, label) ==
    CASE b = "librosa" /\ label = "librosa" -> "Librosa failed" \in PrintedMsgs
      [] b = "pydub" -> "Pydub failed" \in PrintedMsgs
      [] b = "ffmpeg" ->
           PrintedMsgs \cap {"FFmpeg failed", "FFmpeg not available"} # {}
      [] b = "librosa" ->
           \E i \in 1..Len(printed) :
               printed[i].msg = "Backend failed" /\ printed[i].who = label
      [] OTHER -> "Audioread conversion failed" \in PrintedMsgs

FailedWithError(b, label) ==
    /\ \E i \in 1..Len(log) :
          log[i].backend = b /\ log[i].label = label /\ ~log[i].ok
    /\ ErrorPrinted(b, label)

NothingSucceeded == \A i \in 1..Len(log) : ~log[i].ok

SimpleExhausted ==
    (func = "simple" /\ ReturnedFailure) =>
        /\ \A a \in SimpleList : FailedWithError(a.backend, a.label)
        /\ NothingSucceeded
        /\ "All methods failed" \in PrintedMsgs

\* C3 as stated: a conversion returns failure only after all of its backends
\* were attempted and failed, each with its error printed; for
\* convert_any_audio_to_wav the backends are librosa, pydub and ffmpeg.
C3_ExhaustsAllBackends ==
    /\ (AnyCall /\ ReturnedFailure) =>
          /\ \A k \in 1..Len(AnyOrder) : FailedWithError(AnyOrder[k], AnyOrder[k])
          /\ NothingSucceeded
          /\ "All conversion methods failed" \in PrintedMsgs
    /\ SimpleExhausted

\* C3 amended: as C3, with pydub among the backends of
\* convert_any_audio_to_wav only for an input whose extension is .m4a in any
\* letter case.
C3_Exhausts ==
    /\ (AnyCall /\ ReturnedFailure) =>
          /\ \A k \in RanksFor(input_path) : FailedWithError(AnyOrder[k], AnyOrder[k])
          /\ NothingSucceeded
          /\ "All conversion methods failed" \in PrintedMsgs
    /\ SimpleExhausted

\* an .m4a file on which librosa, pydub and ffmpeg all failed
C3_Witness ==
    /\ func = "any" /\ ReturnedFailure
    /\ input_path.name = <<"a", ".", "m", "4", "a">>
    /\ Len(log) = 3

\* the files of the directory with a supported extension, before the batch
Files0 ==
    {p \in AllPaths :
        /\ p.dir = "in" /\ fs0[p].kind # "none"
        /\ \E k \in 1..Len(supported_formats) : EndsWith(p.name, supported_formats[k])}

\* a file the orchestrator converts when it is run on that file alone
Supported0(p) ==
    /\ Decodable(fs0[p])
    /\ \/ beh["librosa"] = "ok"
       \/ IsM4a(p) /\ beh["pydub"] = "ok"
       \/ /\ beh["ffmpeg"] = "ok"
          /\ p # wav_file(IF output_dir = "" THEN "in" ELSE output_dir, p)

OkResults == {i \in 1..Len(results) : results[i].ok}

\* C4 as stated: on a folder with N convertible and M unconvertible files the
\* batch runs the orchestrator on all N + M files, leaves N successful WAV
\* outputs, one distinct file per converted input, and reports M failures.
C4_BatchCounts ==
    (func = "dir" /\ pc = "dir_done") =>
        LET N == Cardinality({p \in Files0 : Supported0(p)})
            M == Cardinality(Files0) - N
        IN /\ Len(results) = N + M
           /\ {results[i].input : i \in 1..Len(results)} = Files0
           /\ Cardinality(OkResults) = N
           /\ Cardinality({results[i].output : i \in OkResults}) = N
           /\ Cardinality({i \in 1..Len(results) : results[i].failed}) = M

\* C5 as stated: check_ffmpeg answers true on a clean exit and false on a
\* non-zero exit or when the tool cannot be launched, and never raises; when
\* it answers false convert_m4a_to_wav prints the installation message and
\* returns failure, and no exception reaches the caller.
C5_ToolCheckNeverRaises ==
    (func = "ffmpeg" /\ pc = "done") =>
        /\ ret.kind \in {"True", "False"}
        /\ check_ffmpeg =
              (IF ffmpeg_version.exc = "none" /\ ffmpeg_version.returncode = 0
               THEN "True" ELSE "False")
        /\ check_ffmpeg = "False" =>
              /\ ret = RetBool(FALSE)
              /\ printed = <<Msg("FFmpeg is required", NonePath)>>
              /\ fs = fs0

RECURSIVE FrameSum(_, _, _, _)
\* the sum of the first k channel values of frame i of an interleaved buffer
FrameSum(buf, c, i, k) ==
    IF k = 0 THEN 0 ELSE buf[c * (i - 1) + k] + FrameSum(buf, c, i, k - 1)

\* C6 as stated: with the native rate equal to the target rate, for every
\* channel count c >= 1 and n frames, convert_m4a_with_audioread writes
\* exactly n samples, sample i the mean of the c channel values of frame i.
C6_MeanDownmix ==
    (func = "audioread" /\ ar.written /\ ~ar.resampled) =>
        LET c == ar.channels
            n == Len(ar.buf) \div c
        IN /\ Len(ar.audio) = n
           /\ \A i \in 1..n :
                 \* num / den = sum / (c * Int16Scale), den a multiple of Int16Scale
                 /\ ar.audio[i].den % Int16Scale = 0
                 /\ ar.audio[i].num * c =
                       FrameSum(ar.buf, c, i, c) * (ar.audio[i].den \div Int16Scale)

\* name has no extension: no dot after its first character, or only a last one
NoExtension(name) ==
    \A i \in 2..Len(name) : name[i] = "." => i = Len(name)

\* out is name with its extension (the last dot and what follows) replaced
\* by .wav, or with .wav added when name has no extension
ExtensionReplaced(name, out) ==
    \/ NoExtension(name) /\ out = name \o WavSuffix
    \/ \E k \in 1..(Len(name) - 2) :
          /\ name[k + 1] = "."
          /\ \A i \in (k + 2)..Len(name) : name[i] # "."
          /\ out = SubSeq(name, 1, k) \o WavSuffix

\* the message by which each function reports where the WAV was written
SuccessMsgs == {"Converted", "Successfully converted"}

\* C7: in every conversion function the output path, once resolved, is the
\* input path with its extension replaced by .wav when none was supplied and
\* the supplied path otherwise; a successful conversion wrote the WAV there,
\* names that path in its success message and, where it returns a path,
\* returns it.
C7_OutputPath ==
    output_path # NonePath =>
        /\ output_arg = NonePath =>
              /\ output_path.dir = input_path.dir
              /\ ExtensionReplaced(input_path.name, output_path.name)
        /\ output_arg # NonePath => output_path = output_arg
        /\ (pc = "done" /\ ret.kind \in {"path", "True"}) =>
              /\ ret.kind = "path" => ret.path = output_path
              /\ \E i \in 1..Len(printed) :
                    printed[i].msg \in SuccessMsgs /\ printed[i].path = output_path
              /\ fs[output_path].kind = "wav"
              /\ \A i \in 1..Len(printed) :
                    printed[i].msg \in SuccessMsgs => printed[i].path = output_path

\* a.b.mp3 converted by ffmpeg, after librosa failed, to the default a.b.wav
C7_Witness ==
    /\ func = "any" /\ pc = "done" /\ ret.kind = "path"
    /\ output_arg = NonePath
    /\ input_path.name = <<"a", ".", "b", ".", "m", "p", "3">>
    /\ output_path.name = <<"a", ".", "b", ".", "w", "a", "v">>
    /\ Last(log).backend = "ffmpeg"

\* C8 as stated: when a call of convert_any_audio_to_wav that succeeded is
\* issued again with the same input path, output path and sample rate, and
\* the backends are functions of the file they read, the second conversion
\* returns the same value and leaves the same WAV output as the first.
C8_Idempotent ==
    (func = "any" /\ pc = "done" /\ prev.valid /\ prev.ret.kind = "path") =>
        /\ ret = prev.ret
        /\ fs[output_path] = prev.out

\* the request uses the default output: no output path, or no output directory
DefaultOutput ==
    \/ func \in {"any", "ffmpeg"} /\ output_arg = NonePath
    \/ func = "dir" /\ output_dir = "" /\ input_path # NonePath

\* C9 as stated: with the default output a conversion never writes to the file
\* it reads: no write of the request goes to the input path, and the input
\* file holds after the conversion what it held before, whether the conversion
\* succeeds or fails.
C9_InputUntouched ==
    (DefaultOutput /\ output_path # NonePath) =>
        /\ writes # <<>> => output_path # input_path
        /\ fs[input_path] = in0

\* C10: when a fallback orchestrator returns success, the output file is the
\* complete WAV written by the backend whose success is returned: that
\* backend's attempt is the last one, every earlier attempt failed, and the
\* last write to the output path is its complete write.
C10_WinnerWroteLast ==
    (func \in {"any", "dir", "simple"} /\ pc = "done" /\ ret.kind = "path") =>
        /\ log # <<>> /\ Last(log).ok
        /\ \A i \in 1..(Len(log) - 1) : ~log[i].ok
        /\ writes # <<>>
        /\ Last(writes) = [by |-> Last(log).backend, complete |-> TRUE]
        /\ \A i \in 1..(Len(writes) - 1) : ~writes[i].complete
        /\ fs[output_path].kind = "wav" /\ fs[output_path].by = Last(log).backend

\* librosa and pydub each left a partial output, then ffmpeg converted the file
C10_Witness ==
    /\ func = "any" /\ pc = "done" /\ ret.kind = "path"
    /\ Len(writes) = 3
    /\ ~writes[1].complete /\ ~writes[2].complete
    /\ Last(writes) = [by |-> "ffmpeg", complete |-> TRUE]

====
